---- MODULE Spec2Model ----
\* Paperboy (src/main.go): a single-run feed aggregator.  main() loads the
\* configuration, fetches every feed, groups the articles by ISO week, sorts
\* the week keys, renders the Markdown document and writes it.
\*
\* Strings are sequences of one-character strings; a time.Time is a record
\* [day, sec, nsec] (days since 1970-01-01 UTC, second of the day, nanosecond
\* of the second); a nil *time.Time is NilTime.
EXTENDS Integers, Sequences, FiniteSets, TLC

VARIABLES
    pc,             \* position of main() (or of the getURLDomain call)
    fatal,          \* which log.Fatalf / runtime panic ended the process, or "none"
    feeds,          \* config.Feeds
    i,              \* index of the feed the range loop of main.go:75 is at
    articles,       \* the slice fetchArticles returned for the current feed
    j,              \* index of the article the range loop of main.go:88 is at
    articlesByWeek, \* map[string][]Article
    weeks,          \* []string
    attempts,       \* history: every fetchArticles call, in order, with its outcome
    template,       \* history: what os.ReadFile(templateFile) returned
    output,         \* the string generateMarkdown built, as the chunks written
    file,           \* the output file: NoFile, or what os.WriteFile left in it
    writeAttempted, \* os.WriteFile was called
    urlString,      \* argument of the getURLDomain call under test
    domain          \* its result

vars == <<pc, fatal, feeds, i, articles, j, articlesByWeek, weeks, attempts,
          template, output, file, writeAttempted, urlString, domain>>

\* ------------------------------------------------------------------ bounds

\* number of feeds of config.yaml
MaxFeeds == 2
\* number of items all the feeds of one run return together
MaxArticles == 3
\* length of the template file, in characters
MaxTemplateLen == 9

\* ------------------------------------------------------------------ strings

Lower == {"a", "b", "c", "d", "e", "f", "g", "h", "i", "j", "k", "l", "m",
          "n", "o", "p", "q", "r", "s", "t", "u", "v", "w", "x", "y", "z"}
Upper == {"A", "B", "C", "D", "E", "F", "G", "H", "I", "J", "K", "L", "M",
          "N", "O", "P", "Q", "R", "S", "T", "U", "V", "W", "X", "Y", "Z"}
Digit == {"0", "1", "2", "3", "4", "5", "6", "7", "8", "9"}
DigitChars == <<"0", "1", "2", "3", "4", "5", "6", "7", "8", "9">>
Space == {" ", "\n", "\t"}

\* byte value of the characters that occur in week keys ('-' is 45, '0' is 48)
Ord(c) == IF c = "-" THEN 45 ELSE 48 + (CHOOSE d \in 0..9 : DigitChars[d + 1] = c)

Min(S) == CHOOSE k \in S : \A m \in S : k <= m
Max(S) == CHOOSE k \in S : \A m \in S : k >= m
MinOrZero(S) == IF S = {} THEN 0 ELSE Min(S)
MaxOrZero(S) == IF S = {} THEN 0 ELSE Max(S)

HasPrefix(s, p) == Len(s) >= Len(p) /\ SubSeq(s, 1, Len(p)) = p

\* strings.Index: position (1-based) of the first occurrence of p in s at or after
\* from, 0 when there is none
IndexFrom(s, p, from) ==
    MinOrZero({k \in from..(Len(s) - Len(p) + 1) : SubSeq(s, k, k + Len(p) - 1) = p})

\* s up to (not including) position k, all of s when k = 0
UpTo(s, k) == IF k = 0 THEN s ELSE SubSeq(s, 1, k - 1)

\* s between the first and the last position of keep
TrimTo(s, keep) == IF keep = {} THEN <<>> ELSE SubSeq(s, Min(keep), Max(keep))

\* strings.TrimSpace
TrimSpace(s) == TrimTo(s, {k \in 1..Len(s) : s[k] \notin Space})

\* fmt's %d of a non-negative integer
RECURSIVE Itoa(_)
Itoa(n) == IF n < 10 THEN <<DigitChars[n + 1]>>
           ELSE Itoa(n \div 10) \o <<DigitChars[(n % 10) + 1]>>

\* fmt's %0wd of a non-negative integer (also the 2006, 01, 02 of time.Format)
RECURSIVE Pad(_, _)
Pad(s, w) == IF Len(s) >= w THEN s ELSE Pad(<<"0">> \o s, w)

\* Go's string order (bytewise): -1, 0 or 1
RECURSIVE CompareStrings(_, _)
CompareStrings(a, b) ==
    IF a = <<>> /\ b = <<>> THEN 0
    ELSE IF a = <<>> THEN -1
    ELSE IF b = <<>> THEN 1
    ELSE IF Ord(Head(a)) < Ord(Head(b)) THEN -1
    ELSE IF Ord(Head(a)) > Ord(Head(b)) THEN 1
    ELSE CompareStrings(Tail(a), Tail(b))

\* --------------------------------------------------------------------- time

NilTime == [nil |-> TRUE]

\* proleptic Gregorian year, month, day of a day number: days are counted from
\* March 1st of year 0 in eras of 400 years (146097 days); doe is the day of the
\* era, yoe the year of the era, doy the day of the year that starts in March,
\* mp the month counted from March
CivilFromMp(y, doy, mp) ==
    [year  |-> y + (IF mp >= 10 THEN 1 ELSE 0),
     month |-> IF mp < 10 THEN mp + 3 ELSE mp - 9,
     day   |-> doy - (153 * mp + 2) \div 5 + 1]

CivilFromDoy(y, doy) == CivilFromMp(y, doy, (5 * doy + 2) \div 153)

CivilFromYoe(doe, era, yoe) ==
    CivilFromDoy(yoe + era * 400, doe - (365 * yoe + yoe \div 4 - yoe \div 100))

CivilFromDoe(doe, era) ==
    CivilFromYoe(doe, era,
                 (doe - doe \div 1460 + doe \div 36524 - doe \div 146096) \div 365)

CivilFromDays(days) ==
    CivilFromDoe((days + 719468) % 146097, (days + 719468) \div 146097)

\* day number of January 1st of the year yoe + 1 of era era
DaysFromYoe(era, yoe) ==
    era * 146097 + yoe * 365 + yoe \div 4 - yoe \div 100 + 306 - 719468

\* day number of January 1st of a year
DaysFromNewYear(year) == DaysFromYoe((year - 1) \div 400, (year - 1) % 400)

\* ISO year and week of a Thursday: yday / 7 + 1
YearWeek(thursday, year) == <<year, (thursday - DaysFromNewYear(year)) \div 7 + 1>>

ISOWeekOfThursday(thursday) == YearWeek(thursday, CivilFromDays(thursday).year)

\* time.Time.ISOWeek of a UTC time: the year and week of the Thursday of its week
\* (day 0 was a Thursday; (day + 3) % 7 is the weekday counted from Monday)
ISOWeek(t) == ISOWeekOfThursday(t.day - ((t.day + 3) % 7) + 3)

\* time.Time.Unix: whole seconds since the epoch, the nanoseconds dropped.  The
\* value is day * 86400 + sec; it is kept as the pair (day, sec), which orders the
\* same way, because the seconds of a far year do not fit 32-bit integers.
Unix(t) == <<t.day, t.sec>>

\* cmp.Compare of two Unix() values
cmpCompare(a, b) ==
    IF a[1] < b[1] \/ (a[1] = b[1] /\ a[2] < b[2]) THEN -1
    ELSE IF a = b THEN 0 ELSE 1

FormatCivil(c) ==
    Pad(Itoa(c.year), 4) \o <<"-">> \o Pad(Itoa(c.month), 2) \o <<"-">>
    \o Pad(Itoa(c.day), 2)

\* time.Time.Format("2006-01-02")
FormatDate(t) == FormatCivil(CivilFromDays(t.day))

\* fmt.Sprintf("%d-%02d", year, week)
FormatWeek(yw) == Itoa(yw[1]) \o <<"-">> \o Pad(Itoa(yw[2]), 2)

\* the week key of an article (main.go:89-92)
WeekID(article) == FormatWeek(ISOWeek(article.PublishAt))

\* ------------------------------------------------------------- getURLDomain

\* the characters of [a-z0-9\-]
Label == Lower \cup Digit \cup {"-"}

\* url.Parse, for strings over letters, digits, space and - . : / (no # ? % @ [ ]):
\* [err |-> TRUE] when it returns an error (and a nil *URL), else the URL's Host.
\*   getScheme: letters, and after the first character digits + - ., up to a ':'
\*   no scheme: the whole string is a path, whose first segment may hold no ':'
\*   scheme and no leading '/': an opaque URL, without host
\*   leading "//": the authority runs to the next '/'; parseHost rejects a port
\*   that is not digits and a character that has to be escaped in a host (space)
ParseError == [err |-> TRUE]
Parsed(host) == [err |-> FALSE, Host |-> host]

SchemeChars(k) == Lower \cup Upper \cup (IF k > 1 THEN Digit \cup {"+", "-", "."} ELSE {})

\* parseHost, given the position of the last ':' of the authority (0: none)
parseHostAt(auth, last) ==
    IF (last > 0 /\ \E k \in (last + 1)..Len(auth) : auth[k] \notin Digit)
       \/ \E k \in 1..Len(auth) :
              auth[k] \notin Lower \cup Upper \cup Digit \cup {"-", ".", ":"}
        THEN ParseError
        ELSE Parsed(auth)

parseHost(auth) == parseHostAt(auth, MaxOrZero({k \in 1..Len(auth) : auth[k] = ":"}))

\* the part of url.Parse after getScheme
parseRest(hasScheme, rest) ==
    IF ~HasPrefix(rest, <<"/">>) /\ hasScheme
        THEN Parsed(<<>>)                     \* opaque
    ELSE IF ~HasPrefix(rest, <<"/">>)
            /\ \E k \in 1..Len(UpTo(rest, IndexFrom(rest, <<"/">>, 1))) : rest[k] = ":"
        THEN ParseError                       \* first path segment cannot contain colon
    ELSE IF (hasScheme \/ ~HasPrefix(rest, <<"/", "/", "/">>))
            /\ HasPrefix(rest, <<"/", "/">>)
        THEN parseHost(UpTo(SubSeq(rest, 3, Len(rest)),
                            IndexFrom(SubSeq(rest, 3, Len(rest)), <<"/">>, 1)))
    ELSE Parsed(<<>>)

\* url.Parse, given the position of the first character that cannot be part of a
\* scheme (0: none)
parseAt(raw, stop) ==
    IF \E k \in 1..Len(raw) : raw[k] \in {"\n", "\t"}
        THEN ParseError                       \* invalid control character in URL
    ELSE IF stop > 0 /\ raw[stop] = ":"
        THEN IF stop = 1 THEN ParseError      \* missing protocol scheme
             ELSE parseRest(TRUE, SubSeq(raw, stop + 1, Len(raw)))
    ELSE parseRest(FALSE, raw)

urlParse(raw) == parseAt(raw, MinOrZero({k \in 1..Len(raw) : raw[k] \notin SchemeChars(k)}))

\* end (exclusive) of the longest run of label characters of s that starts at p
RECURSIVE LabelEnd(_, _)
LabelEnd(s, p) == IF p <= Len(s) /\ s[p] \in Label THEN LabelEnd(s, p + 1) ELSE p

\* whether a dot and a label character follow the label that ends before q
DotLabelAt(s, q) == q < Len(s) /\ s[q] = "." /\ s[q + 1] \in Label

\* end (exclusive) of the greedy match of (\.label)* after the label that ends
\* before q
RECURSIVE ChainEnd(_, _)
ChainEnd(s, q) == IF DotLabelAt(s, q) THEN ChainEnd(s, LabelEnd(s, q + 1)) ELSE q

\* whether ([a-z0-9\-]+\.)+[a-z0-9\-]+ matches at p
MatchesAt(s, p) == p <= Len(s) /\ s[p] \in Label /\ DotLabelAt(s, LabelEnd(s, p))

\* the match that starts at p, "" when p = 0
MatchFrom(s, p) == IF p = 0 THEN <<>> ELSE SubSeq(s, p, ChainEnd(s, LabelEnd(s, p)) - 1)

\* an extractor that only looks for a match at the start of the string
FindStringAnchored(s) == MatchFrom(s, IF MatchesAt(s, 1) THEN 1 ELSE 0)

\* regexp.MustCompile(`([a-z0-9\-]+\.)+[a-z0-9\-]+`).FindString: the leftmost
\* match, each repetition greedy; "" when there is none
FindString(s) == MatchFrom(s, MinOrZero({p \in 1..Len(s) : MatchesAt(s, p)}))

\* main.go:205-207: drop a leading "www."
StripWWW(s) ==
    IF HasPrefix(s, <<"w", "w", "w", ".">>) THEN SubSeq(s, 5, Len(s)) ELSE s

\* main.go:205-209
Returned(s) == [fault |-> FALSE, domain |-> FindString(StripWWW(s))]

\* main.go:201-202: read.Host of the result of url.Parse; read is nil after an
\* error, and the dereference panics
HostOf(read) == IF read.err THEN [fault |-> TRUE] ELSE Returned(read.Host)

\* main.go:200-209, after the TrimSpace; ^https? matches what starts with http
DomainOfTrimmed(s) ==
    IF HasPrefix(s, <<"h", "t", "t", "p">>) THEN HostOf(urlParse(s)) ELSE Returned(s)

\* getURLDomain: [fault |-> TRUE] when it panics, else the string it returns
getURLDomain(s) == DomainOfTrimmed(TrimSpace(s))

\* ------------------------------------------------- inputs of getURLDomain

Leads   == {<<>>, <<" ">>}
Schemes == {<<>>, <<"h", "t", "t", "p", ":", "/", "/">>, <<"h", "t", "t", "p", "s", ":", "/", "/">>}
Wwws    == {<<>>, <<"w", "w", "w", ".">>}
Hosts   == {<<"e", "x", "a", "m", "p", "l", "e", ".", "c", "o", "m">>,
            <<"E", "x", "a", "m", "p", "l", "e", ".", "c", "o", "m">>,
            <<"h", "t", "t", "p", "b", "i", "n", ".", "o", "r", "g">>,
            <<"s", "u", "b", ".", "e", "x", "a", "m", "p", "l", "e", ".", "c", "o", "m">>,
            <<"E", "X", "A", "M", "P", "L", "E", ".", "C", "O", "M">>,
            <<"l", "o", "c", "a", "l", "h", "o", "s", "t">>,
            <<"a", " ", "b", ".", "c">>,
            <<"e", "x", "-", "1", ".", "i", "o", ":", "8", "0", "8", "0">>,
            <<"a", ".", "i", "o", ":", "x">>,
            <<"a", ".", "B", ".", "c", ".", "d">>}
Paths   == {<<>>, <<"/", "a">>, <<"/", "x", ".", "y">>}

\* an input, in its parts
InputParts == [lead : Leads, scheme : Schemes, www : Wwws, host : Hosts, path : Paths]

Compose(r) == r.lead \o r.scheme \o r.www \o r.host \o r.path

\* ------------------------------------------------------------ fetchArticles

\* what gofeed's parser returns for the items of the feeds (gofeed.Item: Title,
\* Link, PublishedParsed).  B is the Monday of ISO week 2025-01, C is half a second
\* after A, F lies in a three-digit year, G has no parsed date, H has a link
\* url.Parse rejects.
Items == {
    [Title |-> "A", Link |-> <<"h", "t", "t", "p", "s", ":", "/", "/", "E", "x", "a", "m", "p", "l", "e", ".", "c", "o", "m", "/", "a">>,
     PublishedParsed |-> [day |-> 20090, sec |-> 36000, nsec |-> 0]],
    [Title |-> "B", Link |-> <<"w", "w", "w", ".", "e", "x", "a", "m", "p", "l", "e", ".", "c", "o", "m", "/", "b">>,
     PublishedParsed |-> [day |-> 20087, sec |-> 32400, nsec |-> 0]],
    [Title |-> "C", Link |-> <<"e", "x", "a", "m", "p", "l", "e", ".", "c", "o", "m">>,
     PublishedParsed |-> [day |-> 20090, sec |-> 36000, nsec |-> 500000000]],
    [Title |-> "D", Link |-> <<"h", "t", "t", "p", "s", ":", "/", "/", "w", "w", "w", ".", "e", "x", "a", "m", "p", "l", "e", ".", "c", "o", "m", "/", "p", "a", "t", "h">>,
     PublishedParsed |-> [day |-> 20080, sec |-> 43200, nsec |-> 0]],
    [Title |-> "F", Link |-> <<"h", "t", "t", "p", "b", "i", "n", ".", "o", "r", "g", "/", "f">>,
     PublishedParsed |-> [day |-> -354485, sec |-> 0, nsec |-> 0]],
    [Title |-> "G", Link |-> <<"e", "x", "a", "m", "p", "l", "e", ".", "c", "o", "m">>, PublishedParsed |-> NilTime],
    [Title |-> "H", Link |-> <<"h", "t", "t", "p", ":", "/", "/", "a", " ", "b", ".", "c", "/">>,
     PublishedParsed |-> [day |-> 20080, sec |-> 43200, nsec |-> 0]]}

SeqsUpTo(S, n) == UNION {[1..k -> S] : k \in 0..n}

\* the outcomes of fp.ParseURL(feedURL): an error, or a feed of at most n items
ParseURLOutcomes(n) ==
    {[err |-> TRUE]} \cup {[err |-> FALSE, items |-> s] : s \in SeqsUpTo(Items, n)}

\* the Article of one item (main.go:134-142)
ArticleOf(item) ==
    [PublishAt |-> item.PublishedParsed, Title |-> item.Title, URL |-> item.Link,
     URLDomain |-> getURLDomain(item.Link).domain]

\* whether building the Article of an item panics: item.PublishedParsed.UTC() on a
\* nil pointer (main.go:134), or the nil *URL inside getURLDomain (main.go:135)
ItemPanics(item) == item.PublishedParsed = NilTime \/ getURLDomain(item.Link).fault

\* main.go:131-145: the loop over feed.Items
ArticlesOf(items) ==
    IF \E k \in 1..Len(items) : ItemPanics(items[k])
        THEN [kind |-> "panic"]
        ELSE [kind |-> "ok", articles |-> [k \in 1..Len(items) |-> ArticleOf(items[k])]]

IsDated(item) == item.PublishedParsed # NilTime

\* a fetcher that leaves out the items without a parsed date
fetchArticlesSkipping(parsed) ==
    IF parsed.err THEN [kind |-> "error"]
    ELSE ArticlesOf(SelectSeq(parsed.items, IsDated))

\* fetchArticles: the error it returns, the runtime panic it dies of, or its articles
fetchArticles(parsed) ==
    IF parsed.err THEN [kind |-> "error"] ELSE ArticlesOf(parsed.items)

\* ------------------------------------------------------------------ sorting

\* cmp.Compare(a.PublishAt.Unix(), b.PublishAt.Unix()) < 0
ArticleLess(a, b) == cmpCompare(Unix(a.PublishAt), Unix(b.PublishAt)) < 0

\* the inner loop of insertion sort: sink the article at position k
RECURSIVE SinkArticle(_, _)
SinkArticle(s, k) ==
    IF k > 1 /\ ArticleLess(s[k], s[k - 1])
        THEN SinkArticle([s EXCEPT ![k] = s[k - 1], ![k - 1] = s[k]], k - 1)
        ELSE s

RECURSIVE InsertionSortArticles(_, _)
InsertionSortArticles(s, k) ==
    IF k > Len(s) THEN s ELSE InsertionSortArticles(SinkArticle(s, k), k + 1)

\* slices.SortFunc(articles, ...): on a slice of at most 12 elements it runs
\* insertion sort, which keeps articles that compare equal in their order
SortFunc(as) == InsertionSortArticles(as, 2)

RECURSIVE SinkString(_, _)
SinkString(s, k) ==
    IF k > 1 /\ CompareStrings(s[k], s[k - 1]) < 0
        THEN SinkString([s EXCEPT ![k] = s[k - 1], ![k - 1] = s[k]], k - 1)
        ELSE s

RECURSIVE InsertionSortStrings(_, _)
InsertionSortStrings(s, k) ==
    IF k > Len(s) THEN s ELSE InsertionSortStrings(SinkString(s, k), k + 1)

\* sort.Strings
SortStrings(ws) == InsertionSortStrings(ws, 2)

\* slices.Reverse
Reverse(s) == [k \in 1..Len(s) |-> s[Len(s) + 1 - k]]

\* the weeks without the reversal
OrderWeeksAscending(ws) == SortStrings(ws)

\* main.go:102-103
OrderWeeks(ws) == Reverse(SortStrings(ws))

\* --------------------------------------------------------- generateMarkdown

Delimiter == <<"-", "-", "-">>

\* the parts of s cut at the delimiters at a and b (0: no such delimiter)
PartsAt(s, a, b) ==
    IF a = 0 THEN <<s>>
    ELSE IF b = 0 THEN <<SubSeq(s, 1, a - 1), SubSeq(s, a + 3, Len(s))>>
    ELSE <<SubSeq(s, 1, a - 1), SubSeq(s, a + 3, b - 1), SubSeq(s, b + 3, Len(s))>>

SplitAfter(s, a) ==
    PartsAt(s, a, IF a = 0 THEN 0 ELSE IndexFrom(s, Delimiter, a + 3))

\* a splitter with the count 2: it cuts at the first delimiter only
SplitN2(s) == PartsAt(s, IndexFrom(s, Delimiter, 1), 0)

\* strings.SplitN(s, "---", 3): at most three parts, the last one unsplit
SplitN3(s) == SplitAfter(s, IndexFrom(s, Delimiter, 1))

\* the line of one article (main.go:183)
ArticleLine(a) ==
    [kind |-> "article", date |-> FormatDate(a.PublishAt), domain |-> a.URLDomain,
     title |-> a.Title, url |-> a.URL]

\* main.go:181-184: the heading of a week and the lines of its sorted articles
SectionOf(week, sorted) ==
    <<[kind |-> "week", week |-> week]>>
    \o [k \in 1..Len(sorted) |-> ArticleLine(sorted[k])]

\* articlesByWeek[week]: nil for a key the map does not hold
Bucket(byWeek, week) == IF week \in DOMAIN byWeek THEN byWeek[week] ELSE <<>>

\* main.go:171-187: nothing for an empty bucket, else the section
Section(byWeek, week) ==
    IF Len(Bucket(byWeek, week)) = 0 THEN <<>>
    ELSE SectionOf(week, SortFunc(Bucket(byWeek, week)))

RECURSIVE Sections(_, _)
Sections(byWeek, ws) ==
    IF ws = <<>> THEN <<>> ELSE Section(byWeek, Head(ws)) \o Sections(byWeek, Tail(ws))

\* main.go:158-192, given the parts of the template
renderParts(templateParts, byWeek, ws) ==
    IF Len(templateParts) # 3 THEN [fatal |-> "templateFormat"]
    ELSE [fatal |-> "none",
          output |-> <<[kind |-> "header", text |-> TrimSpace(templateParts[1])]>>
                     \o Sections(byWeek, ws)
                     \o <<[kind |-> "footer", text |-> TrimSpace(templateParts[3])]>>]

\* a renderer that takes a template of fewer than three parts as all header
generateMarkdownLenient(tpl, byWeek, ws) ==
    IF tpl.err THEN [fatal |-> "templateRead"]
    ELSE [fatal |-> "none",
          output |-> <<[kind |-> "header", text |-> TrimSpace(SplitN3(tpl.data)[1])]>>
                     \o Sections(byWeek, ws)
                     \o <<[kind |-> "footer", text |-> <<>>]>>]

\* generateMarkdown: which log.Fatalf ends it, or the output it returns, as the
\* chunks written to the builder.  tpl is what os.ReadFile(templateFile) gives.
generateMarkdown(tpl, byWeek, ws) ==
    IF tpl.err THEN [fatal |-> "templateRead"]
    ELSE renderParts(SplitN3(tpl.data), byWeek, ws)

\* the buckets after generateMarkdown: SortFunc sorts each rendered bucket in place
SortedInPlace(byWeek, ws) ==
    [k \in DOMAIN byWeek |->
        IF \E n \in 1..Len(ws) : ws[n] = k THEN SortFunc(byWeek[k]) ELSE byWeek[k]]

\* ---------------------------------------------------------------- templates

\* what os.ReadFile(templateFile) can give main(): an error, a well-formed
\* template, one with a single delimiter
SampleTemplates ==
    {[err |-> TRUE],
     [err |-> FALSE, data |-> <<"x", " ", "-", "-", "-", " ", "-", "-", "-", "x">>],
     [err |-> FALSE, data |-> <<"x", "-", "-", "-", "x">>]}

\* every template text of at most MaxTemplateLen characters over - x and space
AllTemplates ==
    {[err |-> TRUE]}
    \cup {[err |-> FALSE, data |-> s] : s \in SeqsUpTo({"-", "x", " "}, MaxTemplateLen)}

\* ------------------------------------------------------------------- main()

NoFile == [exists |-> FALSE]
NoTemplate == [read |-> FALSE]

\* the number of items the fetches so far returned
RECURSIVE ItemsFetched(_)
ItemsFetched(as) ==
    IF as = <<>> THEN 0
    ELSE (IF Head(as).parsed.err THEN 0 ELSE Len(Head(as).parsed.items))
         + ItemsFetched(Tail(as))

\* log.Fatalf, or an unrecovered runtime panic: the process ends here
Exit(why) == pc' = "exit" /\ fatal' = why

\* the state at the start of main(), but for pc and urlString
Fresh ==
    /\ fatal = "none"
    /\ feeds = <<>>
    /\ i = 1
    /\ articles = <<>>
    /\ j = 1
    /\ articlesByWeek = <<>>
    /\ weeks = <<>>
    /\ attempts = <<>>
    /\ template = NoTemplate
    /\ output = <<>>
    /\ file = NoFile
    /\ writeAttempted = FALSE
    /\ domain = <<>>

Init == pc = "readConfig" /\ urlString = <<>> /\ Fresh

\* main.go:56-60
ReadConfig ==
    /\ pc = "readConfig"
    /\ \E ok \in BOOLEAN :
          IF ok THEN pc' = "parseConfig" /\ fatal' = fatal ELSE Exit("configRead")
    /\ UNCHANGED <<feeds, i, articles, j, articlesByWeek, weeks, attempts, template,
                   output, file, writeAttempted, urlString, domain>>

\* main.go:63-73; the feed URLs are opaque to main(), here 1, 2, ...
ParseConfig ==
    /\ pc = "parseConfig"
    /\ \E ok \in BOOLEAN :
          IF ok THEN /\ pc' = "fetch"
                     /\ fatal' = fatal
                     /\ \E n \in 0..MaxFeeds : feeds' = [k \in 1..n |-> k]
                ELSE Exit("configParse") /\ feeds' = feeds
    /\ UNCHANGED <<i, articles, j, articlesByWeek, weeks, attempts, template,
                   output, file, writeAttempted, urlString, domain>>

\* a handler of the fetch error that ends the run
AbortOnFetchError ==
    /\ Exit("fetch")
    /\ UNCHANGED <<i, articles, j>>

\* main.go:80-83: log the error and continue with the next feed
OnFetchError ==
    /\ i' = i + 1
    /\ UNCHANGED <<pc, fatal, articles, j>>

\* main.go:85-88: the articles are there; the grouping loop starts, or, without
\* articles, the next feed is due
OnFetched(got) ==
    /\ articles' = got
    /\ fatal' = fatal
    /\ IF got = <<>>
          THEN i' = i + 1 /\ UNCHANGED <<pc, j>>
          ELSE pc' = "group" /\ j' = 1 /\ i' = i

\* main.go:79-86, given what fetchArticles did
AfterFetch(got) ==
    CASE got.kind = "error" -> OnFetchError
      [] got.kind = "panic" -> Exit("panic") /\ UNCHANGED <<i, articles, j>>
      [] got.kind = "ok"    -> OnFetched(got.articles)

\* main.go:75-86: one iteration of the loop over config.Feeds, up to the grouping
Fetch ==
    /\ pc = "fetch"
    /\ i <= Len(feeds)
    /\ \E parsed \in ParseURLOutcomes(MaxArticles - ItemsFetched(attempts)) :
          /\ attempts' = Append(attempts, [feed |-> feeds[i], parsed |-> parsed])
          /\ AfterFetch(fetchArticles(parsed))
    /\ UNCHANGED <<feeds, articlesByWeek, weeks, template, output, file,
                   writeAttempted, urlString, domain>>

\* slices.Contains
Contains(s, x) == \E k \in 1..Len(s) : s[k] = x

\* main.go:93: articlesByWeek[id] = append(articlesByWeek[id], article)
AppendTo(byWeek, id, article) ==
    IF id \in DOMAIN byWeek
        THEN [byWeek EXCEPT ![id] = Append(@, article)]
        ELSE byWeek @@ (id :> <<article>>)

\* a grouping step that appends the key to the index every time
GroupUnderAlways(byWeek, ws, article, id) ==
    [byWeek |-> AppendTo(byWeek, id, article), weeks |-> Append(ws, id)]

\* main.go:93-97: the bucket map and the week index after the article is added
\* under the key id
GroupUnder(byWeek, ws, article, id) ==
    [byWeek |-> AppendTo(byWeek, id, article),
     weeks  |-> IF Contains(ws, id) THEN ws ELSE Append(ws, id)]

\* main.go:89-97
GroupArticle(byWeek, ws, article) == GroupUnder(byWeek, ws, article, WeekID(article))

Grouped(g) == articlesByWeek' = g.byWeek /\ weeks' = g.weeks

\* main.go:88-98: one iteration of the loop over the articles of the feed
AddArticle ==
    /\ pc = "group"
    /\ j <= Len(articles)
    /\ Grouped(GroupArticle(articlesByWeek, weeks, articles[j]))
    /\ IF j = Len(articles)
          THEN pc' = "fetch" /\ i' = i + 1 /\ j' = j
          ELSE pc' = pc /\ i' = i /\ j' = j + 1
    /\ UNCHANGED <<fatal, feeds, articles, attempts, template, output, file,
                   writeAttempted, urlString, domain>>

\* main.go:101-103, after the last feed
SortWeeks ==
    /\ pc = "fetch"
    /\ i > Len(feeds)
    /\ weeks' = OrderWeeks(weeks)
    /\ pc' = "render"
    /\ UNCHANGED <<fatal, feeds, i, articles, j, articlesByWeek, attempts, template,
                   output, file, writeAttempted, urlString, domain>>

\* main.go:108-110, given what generateMarkdown did
Rendered(r) ==
    IF r.fatal # "none"
        THEN Exit(r.fatal) /\ UNCHANGED <<output, articlesByWeek>>
        ELSE /\ pc' = "write"
             /\ fatal' = fatal
             /\ output' = r.output
             /\ articlesByWeek' = SortedInPlace(articlesByWeek, weeks)

\* main.go:108: the call of generateMarkdown with what the template file holds
Render(tpl) ==
    /\ template' = [read |-> TRUE, tpl |-> tpl]
    /\ Rendered(generateMarkdown(tpl, articlesByWeek, weeks))
    /\ UNCHANGED <<feeds, i, articles, j, weeks, attempts, file, writeAttempted,
                   urlString, domain>>

GenerateMarkdown == pc = "render" /\ \E tpl \in SampleTemplates : Render(tpl)

\* main.go:113-120: os.WriteFile writes the output, or fails having left the file
\* alone or cut short
WriteFile ==
    /\ pc = "write"
    /\ writeAttempted' = TRUE
    /\ \/ pc' = "done" /\ fatal' = fatal /\ file' = [exists |-> TRUE, data |-> output]
       \/ Exit("write") /\ file' \in {file, [exists |-> TRUE, data |-> <<>>]}
    /\ UNCHANGED <<feeds, i, articles, j, articlesByWeek, weeks, attempts, template,
                   output, urlString, domain>>

Next ==
    \/ ReadConfig
    \/ ParseConfig
    \/ Fetch
    \/ AddArticle
    \/ SortWeeks
    \/ GenerateMarkdown
    \/ WriteFile

Spec == Init /\ [][Next]_vars

\* ------------------------------------------ generateMarkdown on any template

\* the state main() is in when it calls generateMarkdown after a run without feeds
InitRender == pc = "render" /\ urlString = <<>> /\ Fresh

GenerateMarkdownAny == pc = "render" /\ \E tpl \in AllTemplates : Render(tpl)

NextRender == GenerateMarkdownAny \/ WriteFile

SpecRender == InitRender /\ [][NextRender]_vars

\* ------------------------------------------------- getURLDomain on any input

InitDomain == pc = "call" /\ urlString \in {Compose(r) : r \in InputParts} /\ Fresh

\* what the call leaves: its return value, or the panic that ends the process
Extracted(r) ==
    IF r.fault THEN Exit("panic") /\ domain' = domain
    ELSE pc' = "returned" /\ fatal' = fatal /\ domain' = r.domain

\* the call getURLDomain(urlString)
GetURLDomain ==
    /\ pc = "call"
    /\ Extracted(getURLDomain(urlString))
    /\ UNCHANGED <<feeds, i, articles, j, articlesByWeek, weeks, attempts, template,
                   output, file, writeAttempted, urlString>>

NextDomain == GetURLDomain

SpecDomain == InitDomain /\ [][NextDomain]_vars

\* =============================================================== properties

Last(s) == s[Len(s)]

RECURSIVE Concat(_)
Concat(ss) == IF ss = <<>> THEN <<>> ELSE Head(ss) \o Concat(Tail(ss))

Count(s, x) == Cardinality({k \in 1..Len(s) : s[k] = x})

\* the same elements, each as many times
SameBag(s, t) == Len(s) = Len(t) /\ \A k \in 1..Len(s) : Count(s, s[k]) = Count(t, s[k])

\* every article in a bucket, bucket after bucket
RECURSIVE Flatten(_, _)
Flatten(byWeek, keys) ==
    IF keys = {} THEN <<>>
    ELSE byWeek[CHOOSE k \in keys : TRUE] \o Flatten(byWeek, keys \ {CHOOSE k \in keys : TRUE})

\* the Article fetchArticles builds from each item it can build one from
ExpectedArticle == [it \in {x \in Items : ~ItemPanics(x)} |-> ArticleOf(it)]

\* the articles of the items of the attempts in as whose fetch succeeded
SucceededArticles(as) ==
    Concat([k \in 1..Len(as) |->
              IF as[k].parsed.err THEN <<>>
              ELSE [n \in 1..Len(as[k].parsed.items) |->
                      ExpectedArticle[as[k].parsed.items[n]]]])

LoopDone == pc \in {"render", "write", "done"}
            \/ (pc = "exit" /\ fatal \in {"templateRead", "templateFormat", "write"})

\* C1: a fetch that returns an error never ends the run.  The feeds are attempted
\* once each in declared order; whenever the loop is between two feeds or over,
\* the buckets hold exactly the articles of the feeds whose fetch succeeded; a run
\* whose last fetch failed ends only where rendering or writing ends it, with
\* every feed attempted.
C1_FetchErrorsDoNotAbort ==
    /\ fatal # "fetch"
    /\ Len(attempts) <= Len(feeds)
    /\ \A k \in 1..Len(attempts) : attempts[k].feed = feeds[k]
    /\ (pc \in {"fetch", "group"}) => Len(attempts) = i - (IF pc = "group" THEN 0 ELSE 1)
    /\ LoopDone => Len(attempts) = Len(feeds)
    /\ (pc = "fetch" \/ LoopDone) =>
          SameBag(Flatten(articlesByWeek, DOMAIN articlesByWeek),
                  SucceededArticles(attempts))
    /\ (pc = "exit" /\ attempts # <<>> /\ Last(attempts).parsed.err) => LoopDone

\* C1 witness: the first feed failed, the second gave articles, the file is written
C1_Witness ==
    /\ pc = "done"
    /\ Len(attempts) = 2
    /\ attempts[1].parsed.err
    /\ ~attempts[2].parsed.err
    /\ articlesByWeek # <<>>
    /\ file = [exists |-> TRUE, data |-> output]

\* C2: the week index and the week buckets hold the same keys: every key of the
\* index has a non-empty bucket, every bucket key is in the index, and no key is
\* in the index twice.
C2_IndexMatchesBuckets ==
    /\ {weeks[k] : k \in 1..Len(weeks)} = DOMAIN articlesByWeek
    /\ \A id \in DOMAIN articlesByWeek : Len(articlesByWeek[id]) > 0
    /\ \A a, b \in 1..Len(weeks) : weeks[a] = weeks[b] => a = b

\* C2 witness: between two feeds, two keys seen and a bucket with the articles of
\* two feeds
C2_Witness ==
    /\ pc = "fetch"
    /\ Len(attempts) = 2
    /\ Len(weeks) = 2
    /\ \E id \in DOMAIN articlesByWeek :
          /\ Len(articlesByWeek[id]) = 2
          /\ articlesByWeek[id][1].Title = "A"
          /\ articlesByWeek[id][2].Title = "B"

\* the number of delimiters of a template text, counted from left to right
\* without overlap
RECURSIVE CountDelimiters(_)
CountDelimiters(s) ==
    IF Len(s) < 3 THEN 0
    ELSE IF SubSeq(s, 1, 3) = <<"-", "-", "-">>
        THEN 1 + CountDelimiters(SubSeq(s, 4, Len(s)))
    ELSE CountDelimiters(Tail(s))

TemplateUsable == template.read /\ ~template.tpl.err
                  /\ CountDelimiters(template.tpl.data) >= 2

InstantOf(title) == (CHOOSE it \in Items : it.Title = title).PublishedParsed

InstantLE(a, b) ==
    \/ a.day < b.day
    \/ a.day = b.day /\ a.sec < b.sec
    \/ a.day = b.day /\ a.sec = b.sec /\ a.nsec <= b.nsec

SameSection(a, b) ==
    /\ output[a].kind = "article"
    /\ output[b].kind = "article"
    /\ \A k \in a..b : output[k].kind = "article"

\* C4: in the rendered document, of two article lines of one week section the
\* earlier one has the earlier or the same publish instant.
C4_AscendingByInstant ==
    \A a, b \in 1..Len(output) :
        (a < b /\ SameSection(a, b)) =>
            InstantLE(InstantOf(output[a].title), InstantOf(output[b].title))

\* the week headings of the document, in order
Headings == SelectSeq(output, LAMBDA c : c.kind = "week")

\* the ISO (year, week) of the articles under a key
PairOf(id) == ISOWeek(articlesByWeek[id][1].PublishAt)

PairGreater(p, q) == p[1] > q[1] \/ (p[1] = q[1] /\ p[2] > q[2])

SameYearDigits ==
    \A x, y \in DOMAIN articlesByWeek :
        Len(Itoa(PairOf(x)[1])) = Len(Itoa(PairOf(y)[1]))

\* C5: the week headings of the document are the keys of the fetched articles,
\* each once; when the ISO years of the articles have the same number of digits,
\* the headings stand in strictly descending order of (ISO year, ISO week).
C5_WeeksDescending ==
    output # <<>> =>
        /\ {Headings[k].week : k \in 1..Len(Headings)} = DOMAIN articlesByWeek
        /\ \A a, b \in 1..Len(Headings) : Headings[a].week = Headings[b].week => a = b
        /\ \A id \in DOMAIN articlesByWeek :
              \A k \in 1..Len(articlesByWeek[id]) : WeekID(articlesByWeek[id][k]) = id
        /\ SameYearDigits =>
              \A a, b \in 1..Len(Headings) :
                  a < b => PairGreater(PairOf(Headings[a].week), PairOf(Headings[b].week))

\* C5 witness: a document with two week sections, first fetched in ascending order
C5_Witness ==
    /\ pc = "done"
    /\ Len(Headings) = 2
    /\ SameYearDigits
    /\ Len(attempts) >= 1
    /\ ~attempts[1].parsed.err
    /\ Len(attempts[1].parsed.items) >= 2
    /\ attempts[1].parsed.items[1].Title = "D"
    /\ attempts[1].parsed.items[2].Title = "A"

HasUpper(s) == \E k \in 1..Len(s) : s[k] \in Upper

\* one or more dot-terminated labels and a final label, of lowercase letters,
\* digits and hyphens
IsDomainShaped(s) ==
    /\ Len(s) >= 3
    /\ \A k \in 1..Len(s) : s[k] \in Lower \cup Digit \cup {"-", "."}
    /\ s[1] # "." /\ s[Len(s)] # "."
    /\ \E k \in 1..Len(s) : s[k] = "."
    /\ \A k \in 1..(Len(s) - 1) : ~(s[k] = "." /\ s[k + 1] = ".")

\* the positions at which a domain-shaped substring of s starts
DomainStarts(s) ==
    {a \in 1..Len(s) : \E b \in a..Len(s) : IsDomainShaped(SubSeq(s, a, b))}

Called == pc \in {"returned", "exit"}

C7_BareDomainUnchanged ==
    (Called /\ IsDomainShaped(urlString) /\ ~HasPrefix(urlString, <<"w", "w", "w", ".">>))
        => pc = "returned" /\ domain = urlString

\* C8: when the input takes the URL-parsing branch and url.Parse fails, the call
\* still returns, with the result of the www. and pattern steps on the trimmed input
C8_ParseFailureIsSilent ==
    (Called /\ HasPrefix(TrimSpace(urlString), <<"h", "t", "t", "p">>)
            /\ urlParse(TrimSpace(urlString)).err)
        => pc = "returned" /\ domain = FindString(StripWWW(TrimSpace(urlString)))

\* the text before the first delimiter of s
RECURSIVE BeforeDelimiter(_)
BeforeDelimiter(s) ==
    IF Len(s) < 3 \/ SubSeq(s, 1, 3) = <<"-", "-", "-">> THEN <<>>
    ELSE <<Head(s)>> \o BeforeDelimiter(Tail(s))

\* the text after the first delimiter of s
AfterDelimiter(s) == SubSeq(s, Len(BeforeDelimiter(s)) + 4, Len(s))

RenderCalled == template.read /\ ~template.tpl.err

RenderedWith(header, footer) ==
    /\ pc \in {"write", "done"} \/ (pc = "exit" /\ fatal = "write")
    /\ output = <<[kind |-> "header", text |-> header], [kind |-> "footer", text |-> footer]>>

\* C9 as stated: rendering succeeds for exactly two delimiters and fails for any
\* other number
C9_ExactlyTwoDelimiters ==
    RenderCalled =>
        IF CountDelimiters(template.tpl.data) = 2
            THEN pc # "exit" \/ fatal = "write"
            ELSE pc = "exit" /\ fatal = "templateFormat"

\* C9, amended: rendering succeeds for a template with at least two delimiters.
\* With fewer it fails fatally and produces no document; with two or more the
\* header is the trimmed text before the first delimiter and the footer the
\* trimmed text after the second, further delimiters included.
C9_AtLeastTwoDelimiters ==
    RenderCalled =>
        IF CountDelimiters(template.tpl.data) >= 2
            THEN RenderedWith(
                    TrimSpace(BeforeDelimiter(template.tpl.data)),
                    TrimSpace(AfterDelimiter(AfterDelimiter(template.tpl.data))))
            ELSE pc = "exit" /\ fatal = "templateFormat" /\ output = <<>> /\ file = NoFile

\* C9 witness: a template of three delimiters is rendered
C9_Witness ==
    /\ RenderCalled
    /\ CountDelimiters(template.tpl.data) = 3
    /\ pc = "write"

HasUndated(parsed) ==
    ~parsed.err /\ \E k \in 1..Len(parsed.items) : parsed.items[k].PublishedParsed = NilTime

\* C10: a feed that parses but holds an item without a parsed date ends the run
\* with a panic at that fetch: no later feed is fetched, none of its articles is
\* grouped, and the output file is not written.
C10_UndatedItemPanics ==
    \A k \in 1..Len(attempts) :
        HasUndated(attempts[k].parsed) =>
            /\ pc = "exit"
            /\ fatal = "panic"
            /\ k = Len(attempts)
            /\ SameBag(Flatten(articlesByWeek, DOMAIN articlesByWeek),
                       SucceededArticles(SubSeq(attempts, 1, k - 1)))
            /\ ~writeAttempted
            /\ file = NoFile

\* C10 witness: the first of two feeds has a dated and an undated item, both with
\* links that parse
C10_Witness ==
    /\ pc = "exit"
    /\ Len(feeds) = 2
    /\ Len(attempts) = 1
    /\ Len(attempts[1].parsed.items) = 2
    /\ attempts[1].parsed.items[1].Title = "A"
    /\ attempts[1].parsed.items[2].Title = "G"

====
